---- MODULE Spec2Model ----
(***************************************************************************)
(* Model of asmjit/core/logging.h: FormatOptions, Logger, FileLogger,      *)
(* StringLogger and the Logging::formatRegister / formatLabel formatters.  *)
(*                                                                         *)
(* A uint32_t flag word is a set of bit positions (a subset of 0..31):    *)
(* bitwise OR is union, AND is intersection and ~ is the complement in     *)
(* 0..31.  A byte span is a sequence of byte values, 0 being NUL.          *)
(***************************************************************************)
EXTENDS Integers, Sequences, FiniteSets, TLC

VARIABLES kind, _options, _content, _file, streams, sb, accepted, requested, lastOp

vars == <<kind, _options, _content, _file, streams, sb, accepted, requested, lastOp>>

(***************************************************************************)
(* Bounds of the model.                                                    *)
(***************************************************************************)
MaxCapacity == 3    \* bytes the allocator can ever give a StringLogger
MaxCalls    == 2    \* accepted _log calls tracked between two clear()
MaxStream   == 1    \* bytes a stream takes before its writes fail
MaxSb       == 8    \* units the allocator can ever give the output String

(***************************************************************************)
(* Program constants.                                                      *)
(***************************************************************************)
\* SIZE_MAX: only ever compared for equality; the model checker's integers
\* are 32-bit signed, so the largest of them stands for it.
SIZE_MAX == 2147483647

kIndentationCode     == 0
kIndentationLabel    == 1
kIndentationComment  == 2
kIndentationReserved == 3

IndentationTypes ==
  {kIndentationCode, kIndentationLabel, kIndentationComment, kIndentationReserved}

Bits32 == 0..31

\* kFlagMachineCode = 0x1 is bit 0, kFlagHexImms = 0x4 is bit 2
kFlagMachineCode == {0}
kFlagHexImms     == {2}

kErrorOk       == "kErrorOk"
kErrorNoMemory == "kErrorNoMemory"
\* the result of a stream write that failed (the source names no code for it)
kErrorWrite    == "kErrorWrite"

NULL == "NULL"

(***************************************************************************)
(* Inputs.                                                                 *)
(***************************************************************************)
\* masks: none, one flag, another flag
FlagValues == {{}, kFlagMachineCode, kFlagHexImms}

\* requested widths: one below 256, exactly 256, one above 256
NValues == {3, 256, 259}

\* caller buffers; each is followed by a terminating NUL in memory
DataValues == {<<1, 0>>}

\* no byte, every byte of the buffer, or the default: up to the NUL
SizeValues(data) == {0, Len(data), SIZE_MAX}

FileValues == {NULL, "F1", "F2"}

Streams == FileValues \ {NULL}

\* emitter contexts: none, or one emitter E
EmitterValues == {NULL, "E"}

\* label and register ids: E resolves 0 and does not resolve 7
IdValues == {0, 7}

ArchIdValues == {1}

RegTypeValues == {1}

\* the flags argument of the formatters
FormatFlagValues == {kFlagHexImms}

(***************************************************************************)
(* uint32_t / uint8_t arithmetic.                                          *)
(***************************************************************************)
BitOr(a, b)  == a \cup b
BitAnd(a, b) == a \cap b
BitNot(a)    == Bits32 \ a

\* uint8_t(n) of a uint32_t n keeps the low eight bits
Uint8(n) == n - (n \div 256) * 256

(***************************************************************************)
(* FormatOptions                                                           *)
(***************************************************************************)
FormatOptions_FormatOptions ==
  [_flags |-> {}, _indentation |-> [t \in IndentationTypes |-> 0]]

FormatOptions_reset(o) ==
  [_flags |-> {}, _indentation |-> [t \in IndentationTypes |-> 0]]

FormatOptions_flags(o) == o._flags

FormatOptions_hasFlag(o, flag) == BitAnd(o._flags, flag) # {}

FormatOptions_setFlags(o, flags) == [o EXCEPT !._flags = flags]

\* mutation: = in place of |=
FormatOptions_addFlags_assigns(o, flags) == [o EXCEPT !._flags = flags]

FormatOptions_addFlags(o, flags) == [o EXCEPT !._flags = BitOr(@, flags)]

\* mutation: the ~ is missing
FormatOptions_clearFlags_noComplement(o, flags) ==
  [o EXCEPT !._flags = BitAnd(@, flags)]

FormatOptions_clearFlags(o, flags) == [o EXCEPT !._flags = BitAnd(@, BitNot(flags))]

FormatOptions_indentation(o, type) == o._indentation[type]

\* mutation: the width saturates at 255 instead of wrapping
FormatOptions_setIndentation_saturates(o, type, n) ==
  [o EXCEPT !._indentation[type] = IF n > 255 THEN 255 ELSE n]

FormatOptions_setIndentation(o, type, n) ==
  [o EXCEPT !._indentation[type] = Uint8(n)]

\* mutation: every category is reset, as reset() does
FormatOptions_resetIndentation_all(o, type) ==
  [o EXCEPT !._indentation = [t \in IndentationTypes |-> 0]]

FormatOptions_resetIndentation(o, type) ==
  [o EXCEPT !._indentation[type] = Uint8(0)]

(***************************************************************************)
(* asmjit::String, as far as the loggers and formatters use it: a length   *)
(* and a capacity; an append that does not fit asks the allocator for the  *)
(* size needed, which it may refuse, and always refuses past limit.        *)
(***************************************************************************)
String_String == [data |-> <<>>, capacity |-> 0]

String_size(s) == Len(s.data)

String_data(s) == s.data

String_clear(s) == [s EXCEPT !.data = <<>>]

RECURSIVE strlenFrom(_, _)
strlenFrom(data, i) ==
  IF i > Len(data) \/ data[i] = 0 THEN i - 1 ELSE strlenFrom(data, i + 1)

strlen(data) == strlenFrom(data, 1)

\* the bytes (data, size) denotes: size bytes, or up to the NUL for SIZE_MAX
SpanOf(data, size) ==
  SubSeq(data, 1, IF size = SIZE_MAX THEN strlen(data) ELSE size)

\* the outcomes of appending span to s: [res, str]
String_append(s, span, limit) ==
  LET need == Len(s.data) + Len(span) IN
  IF need <= s.capacity
    THEN {[res |-> kErrorOk, str |-> [s EXCEPT !.data = @ \o span]]}
    ELSE {[res |-> kErrorNoMemory, str |-> s]}
         \cup (IF need <= limit
                 THEN {[res |-> kErrorOk,
                        str |-> [data |-> s.data \o span, capacity |-> need]]}
                 ELSE {})

(***************************************************************************)
(* Logging::formatLabel and Logging::formatRegister.  Text is a sequence   *)
(* of units; the unit of a number is its decimal form.                     *)
(***************************************************************************)
\* the ids the emitter context resolves
EmitterResolves(emitter) == IF emitter = NULL THEN {} ELSE {0}

LabelText(emitter, labelId) ==
  IF labelId \in EmitterResolves(emitter)
    THEN <<"L", ToString(labelId)>>
    ELSE <<"unnamed label #", ToString(labelId)>>

RegisterText(emitter, archId, regType, regId) ==
  IF regId \in EmitterResolves(emitter)
    THEN <<"arch", ToString(archId), "r", ToString(regId)>>
    ELSE <<"vreg kind", ToString(regType), "#", ToString(regId)>>

\* mutation: an unresolved label id is an error
Logging_formatLabel_rejects(s, flags, emitter, labelId) ==
  IF labelId \in EmitterResolves(emitter)
    THEN String_append(s, LabelText(emitter, labelId), MaxSb)
    ELSE {[res |-> "kErrorInvalidLabel", str |-> s]}

\* outcomes [res, str]
Logging_formatLabel(s, flags, emitter, labelId) ==
  String_append(s, LabelText(emitter, labelId), MaxSb)

Logging_formatRegister(s, flags, emitter, archId, regType, regId) ==
  String_append(s, RegisterText(emitter, archId, regType, regId), MaxSb)

(***************************************************************************)
(* Logger and its two implementations.  self is the object:                *)
(* [_options, _content, _file]; streams is the world outside it.           *)
(***************************************************************************)
Self == [_options |-> _options, _content |-> _content, _file |-> _file]

Logger_options(self) == self._options

Logger_flags(self) == FormatOptions_flags(self._options)

Logger_setFlags(self, flags) ==
  [self EXCEPT !._options = FormatOptions_setFlags(@, flags)]

Logger_addFlags(self, flags) ==
  [self EXCEPT !._options = FormatOptions_addFlags(@, flags)]

Logger_clearFlags(self, flags) ==
  [self EXCEPT !._options = FormatOptions_clearFlags(@, flags)]

Logger_indentation(self, type) == FormatOptions_indentation(self._options, type)

Logger_setIndentation(self, type, n) ==
  [self EXCEPT !._options = FormatOptions_setIndentation(@, type, n)]

Logger_resetIndentation(self, type) ==
  [self EXCEPT !._options = FormatOptions_resetIndentation(@, type)]

FileLogger_file(self) == self._file

\* mutation: a null stream is ignored
FileLogger_setFile_ignoresNull(self, file) ==
  IF file = NULL THEN self ELSE [self EXCEPT !._file = file]

FileLogger_setFile(self, file) == [self EXCEPT !._file = file]

\* outcomes [res, self, streams] of FileLogger::_log
FileLogger__log(self, strs, data, size) ==
  LET span == SpanOf(data, size) IN
  IF self._file = NULL
    THEN {[res |-> kErrorOk, self |-> self, streams |-> strs]}
    ELSE IF Len(strs[self._file]) + Len(span) <= MaxStream
      THEN {[res |-> kErrorOk, self |-> self,
             streams |-> [strs EXCEPT ![self._file] = @ \o span]]}
      ELSE {[res |-> kErrorWrite, self |-> self, streams |-> strs]}

StringLogger_data(self) == String_data(self._content)

StringLogger_size(self) == String_size(self._content)

\* mutation: the options are reset along with the content
StringLogger_clear_resetsOptions(self) ==
  [self EXCEPT !._content = String_clear(@), !._options = FormatOptions_reset(@)]

\* mutation: nothing is cleared
StringLogger_clear_nothing(self) == self

StringLogger_clear(self) == [self EXCEPT !._content = String_clear(@)]

\* outcomes [res, self, streams] of StringLogger::_log
StringLogger__log(self, strs, data, size) ==
  {[res |-> out.res, self |-> [self EXCEPT !._content = out.str], streams |-> strs] :
     out \in String_append(self._content, SpanOf(data, size), MaxCapacity)}

\* the virtual call
Logger__log(self, strs, data, size) ==
  IF kind = "StringLogger"
    THEN StringLogger__log(self, strs, data, size)
    ELSE FileLogger__log(self, strs, data, size)

\* mutation: the size is not passed on, _log takes its default
Logger_log_dropsSize(self, strs, data, size) == Logger__log(self, strs, data, SIZE_MAX)

\* mutation: the result of _log is not returned
Logger_log_dropsResult(self, strs, data, size) ==
  {[out EXCEPT !.res = kErrorOk] : out \in Logger__log(self, strs, data, size)}

\* Logger::log(const char*, size_t = SIZE_MAX)
Logger_log(self, strs, data, size) == Logger__log(self, strs, data, size)

(***************************************************************************)
(* The record of the last call made.                                       *)
(***************************************************************************)
NoOp ==
  [op |-> "new", res |-> kErrorOk, type |-> 0, n |-> 0, flags |-> {},
   data |-> <<>>, size |-> 0, file |-> NULL,
   emitter |-> NULL, archId |-> 0, regType |-> 0, id |-> 0, start |-> 0]

Call(op) == [NoOp EXCEPT !.op = op]

IsLogger == kind \in {"StringLogger", "FileLogger"}

Store(self) ==
  /\ _options' = self._options
  /\ _content' = self._content
  /\ _file' = self._file

(***************************************************************************)
(* Init: the state after one of the constructors.                          *)
(***************************************************************************)
Init ==
  /\ kind \in {"StringLogger", "FileLogger", "Logging"}
  /\ _options = FormatOptions_FormatOptions
  /\ _content = String_String
  /\ _file \in (IF kind = "FileLogger" THEN FileValues ELSE {NULL})
  /\ streams = [f \in Streams |-> <<>>]
  /\ sb = String_String
  /\ accepted = <<>>
  /\ requested = _file
  /\ lastOp = [NoOp EXCEPT !.file = _file]

(***************************************************************************)
(* Actions: one per call on the object.                                    *)
(***************************************************************************)
\* via = "Logger": the forwarding method; via = "options": options().method
Via == {"Logger", "options"}

SetFlags(via, flags) ==
  /\ IsLogger
  /\ Store(IF via = "Logger" THEN Logger_setFlags(Self, flags)
           ELSE [Self EXCEPT !._options = FormatOptions_setFlags(Logger_options(Self), flags)])
  /\ lastOp' = [Call("setFlags") EXCEPT !.flags = flags]
  /\ UNCHANGED <<kind, streams, sb, accepted, requested>>

AddFlags(via, flags) ==
  /\ IsLogger
  /\ Store(IF via = "Logger" THEN Logger_addFlags(Self, flags)
           ELSE [Self EXCEPT !._options = FormatOptions_addFlags(Logger_options(Self), flags)])
  /\ lastOp' = [Call("addFlags") EXCEPT !.flags = flags]
  /\ UNCHANGED <<kind, streams, sb, accepted, requested>>

ClearFlags(via, flags) ==
  /\ IsLogger
  /\ Store(IF via = "Logger" THEN Logger_clearFlags(Self, flags)
           ELSE [Self EXCEPT !._options = FormatOptions_clearFlags(Logger_options(Self), flags)])
  /\ lastOp' = [Call("clearFlags") EXCEPT !.flags = flags]
  /\ UNCHANGED <<kind, streams, sb, accepted, requested>>

SetIndentation(via, type, n) ==
  /\ IsLogger
  /\ Store(IF via = "Logger" THEN Logger_setIndentation(Self, type, n)
           ELSE [Self EXCEPT !._options = FormatOptions_setIndentation(Logger_options(Self), type, n)])
  /\ lastOp' = [Call("setIndentation") EXCEPT !.type = type, !.n = n]
  /\ UNCHANGED <<kind, streams, sb, accepted, requested>>

ResetIndentation(via, type) ==
  /\ IsLogger
  /\ Store(IF via = "Logger" THEN Logger_resetIndentation(Self, type)
           ELSE [Self EXCEPT !._options = FormatOptions_resetIndentation(Logger_options(Self), type)])
  /\ lastOp' = [Call("resetIndentation") EXCEPT !.type = type]
  /\ UNCHANGED <<kind, streams, sb, accepted, requested>>

\* options().reset()
Reset ==
  /\ IsLogger
  /\ Store([Self EXCEPT !._options = FormatOptions_reset(Logger_options(Self))])
  /\ lastOp' = Call("reset")
  /\ UNCHANGED <<kind, streams, sb, accepted, requested>>

\* log(data, size) or log(data): the size defaults to SIZE_MAX
Log(data, size) ==
  /\ IsLogger
  /\ kind = "StringLogger" => Len(accepted) < MaxCalls
  /\ \E out \in Logger_log(Self, streams, data, size) :
       /\ Store(out.self)
       /\ streams' = out.streams
       /\ accepted' = IF kind = "StringLogger" /\ out.res = kErrorOk
                        THEN Append(accepted, [data |-> data, size |-> size])
                        ELSE accepted
       /\ lastOp' = [Call("_log") EXCEPT !.res = out.res, !.data = data, !.size = size]
  /\ UNCHANGED <<kind, sb, requested>>

Clear ==
  /\ kind = "StringLogger"
  /\ Store(StringLogger_clear(Self))
  /\ accepted' = <<>>
  /\ lastOp' = Call("clear")
  /\ UNCHANGED <<kind, streams, sb, requested>>

SetFile(file) ==
  /\ kind = "FileLogger"
  /\ Store(FileLogger_setFile(Self, file))
  /\ requested' = file
  /\ lastOp' = [Call("setFile") EXCEPT !.file = file]
  /\ UNCHANGED <<kind, streams, sb, accepted>>

FormatLabel(flags, emitter, labelId) ==
  /\ kind = "Logging"
  /\ \E out \in Logging_formatLabel(sb, flags, emitter, labelId) :
       /\ sb' = out.str
       /\ lastOp' = [Call("formatLabel") EXCEPT !.res = out.res, !.flags = flags,
                       !.emitter = emitter, !.id = labelId, !.start = Len(sb.data)]
  /\ UNCHANGED <<kind, _options, _content, _file, streams, accepted, requested>>

FormatRegister(flags, emitter, archId, regType, regId) ==
  /\ kind = "Logging"
  /\ \E out \in Logging_formatRegister(sb, flags, emitter, archId, regType, regId) :
       /\ sb' = out.str
       /\ lastOp' = [Call("formatRegister") EXCEPT !.res = out.res, !.flags = flags,
                       !.emitter = emitter, !.archId = archId, !.regType = regType,
                       !.id = regId, !.start = Len(sb.data)]
  /\ UNCHANGED <<kind, _options, _content, _file, streams, accepted, requested>>

\* the caller empties its output String
SbClear ==
  /\ kind = "Logging"
  /\ sb' = String_clear(sb)
  /\ lastOp' = Call("sb.clear")
  /\ UNCHANGED <<kind, _options, _content, _file, streams, accepted, requested>>

Next ==
  \/ \E via \in Via, flags \in FlagValues : SetFlags(via, flags)
  \/ \E via \in Via, flags \in FlagValues : AddFlags(via, flags)
  \/ \E via \in Via, flags \in FlagValues : ClearFlags(via, flags)
  \/ \E via \in Via, type \in IndentationTypes, n \in NValues : SetIndentation(via, type, n)
  \/ \E via \in Via, type \in IndentationTypes : ResetIndentation(via, type)
  \/ Reset
  \/ \E data \in DataValues : \E size \in SizeValues(data) : Log(data, size)
  \/ Clear
  \/ \E file \in FileValues : SetFile(file)
  \/ \E flags \in FormatFlagValues, emitter \in EmitterValues, labelId \in IdValues :
       FormatLabel(flags, emitter, labelId)
  \/ \E flags \in FormatFlagValues, emitter \in EmitterValues, archId \in ArchIdValues,
        regType \in RegTypeValues, regId \in IdValues :
       FormatRegister(flags, emitter, archId, regType, regId)
  \/ SbClear

Spec == Init /\ [][Next]_vars

(***************************************************************************)
(* Properties.  The expected span and concatenation are written here       *)
(* independently of SpanOf and String_append.                              *)
(***************************************************************************)
ExpectedSpan(data, size) ==
  LET nuls == {i \in 1..Len(data) : data[i] = 0}
      len  == IF size # SIZE_MAX THEN size
              ELSE IF nuls = {} THEN Len(data)
              ELSE (CHOOSE i \in nuls : \A j \in nuls : i <= j) - 1
  IN  SubSeq(data, 1, len)

RECURSIVE Concatenation(_)
Concatenation(calls) ==
  IF calls = <<>> THEN <<>>
  ELSE ExpectedSpan(Head(calls).data, Head(calls).size) \o Concatenation(Tail(calls))

OptionOps ==
  {"setFlags", "addFlags", "clearFlags", "setIndentation", "resetIndentation", "reset"}

FormatOps == {"formatLabel", "formatRegister"}

Unresolved(op) == op.id \notin EmitterResolves(op.emitter)

PlaceholderOf(op) ==
  IF op.op = "formatLabel" THEN LabelText(op.emitter, op.id)
  ELSE RegisterText(op.emitter, op.archId, op.regType, op.id)

SameCall(a, b) ==
  /\ a.op = b.op /\ a.flags = b.flags /\ a.emitter = b.emitter
  /\ a.archId = b.archId /\ a.regType = b.regType /\ a.id = b.id

AddThenClear(o, a, b) == FormatOptions_clearFlags(FormatOptions_addFlags(o, a), b)

ClearThenAdd(o, a, b) == FormatOptions_addFlags(FormatOptions_clearFlags(o, b), a)

\* C1: the content of a StringLogger, as data() and size() expose it, is the
\* concatenation, in call order, of the spans of the calls that returned
\* success since construction or the last clear().
C1_ContentIsConcatenation ==
  kind = "StringLogger" =>
    /\ StringLogger_data(Self) = Concatenation(accepted)
    /\ StringLogger_size(Self) = Len(Concatenation(accepted))

C1_Witness ==
  /\ kind = "StringLogger"
  /\ lastOp.op = "_log" /\ lastOp.res = kErrorOk
  /\ Len(accepted) = 2
  /\ ExpectedSpan(accepted[1].data, accepted[1].size) = <<1, 0>>
  /\ ExpectedSpan(accepted[2].data, accepted[2].size) = <<1>>

\* C2: while the stream of a FileLogger is null (it was constructed with
\* null, or null was the last stream given to setFile), every _log returns
\* success and no stream changes.
C2_NullFileDisablesOutput ==
  [][kind = "FileLogger" =>
       /\ requested' = NULL => FileLogger_file(Self') = NULL
       /\ (lastOp'.op = "_log" /\ (_file = NULL \/ requested = NULL)) =>
            (lastOp'.res = kErrorOk /\ streams' = streams)]_vars

C2_Witness ==
  /\ kind = "FileLogger"
  /\ lastOp.op = "_log" /\ lastOp.data = <<1, 0>>
  /\ requested = NULL /\ _file = NULL
  /\ \E f \in Streams : streams[f] # <<>>

\* C3: clear() leaves size() zero, a second clear() changes nothing, and the
\* writes accepted after a clear() accumulate from the empty content.
C3_ClearResets ==
  [][kind = "StringLogger" =>
       /\ lastOp'.op = "clear" => StringLogger_size(Self') = 0
       /\ (lastOp.op = "clear" /\ lastOp'.op = "clear") =>
            (_content' = _content /\ _options' = _options)
       /\ (lastOp.op = "clear" /\ lastOp'.op = "_log" /\ lastOp'.res = kErrorOk) =>
            StringLogger_data(Self') = ExpectedSpan(lastOp'.data, lastOp'.size)
       /\ (lastOp'.op = "_log" /\ lastOp'.res = kErrorOk) =>
            StringLogger_data(Self') =
              StringLogger_data(Self) \o ExpectedSpan(lastOp'.data, lastOp'.size)]_vars

\* the capacity is the largest size the content ever had: it was cleared
C3_Witness ==
  /\ kind = "StringLogger"
  /\ lastOp.op = "_log" /\ lastOp.res = kErrorOk
  /\ Len(accepted) = 1
  /\ StringLogger_data(Self) = <<1>>
  /\ _content.capacity > StringLogger_size(Self)

\* C4: addFlags(m) leaves exactly the bits set that were set before or are in
\* m, clearFlags(m) exactly those that were set before and are not in m, and
\* applying either a second time with the same mask changes nothing.
C4_FlagsSetAndClearBits ==
  [][IsLogger =>
       /\ lastOp'.op = "addFlags" =>
            /\ \A b \in Bits32 :
                 b \in _options'._flags <=> (b \in _options._flags \/ b \in lastOp'.flags)
            /\ _options._flags \subseteq _options'._flags
            /\ FormatOptions_addFlags(_options', lastOp'.flags) = _options'
       /\ lastOp'.op = "clearFlags" =>
            /\ \A b \in Bits32 :
                 b \in _options'._flags <=> (b \in _options._flags /\ b \notin lastOp'.flags)
            /\ _options'._flags \subseteq _options._flags
            /\ FormatOptions_clearFlags(_options', lastOp'.flags) = _options']_vars

C4_Witness ==
  /\ IsLogger
  /\ lastOp.op = "clearFlags" /\ lastOp.flags = kFlagMachineCode
  /\ FormatOptions_flags(_options) = kFlagHexImms

\* C5 as stated: addFlags(a) then clearFlags(b) leaves the same flags as
\* clearFlags(b) then addFlags(a), for all masks a and b.
C5_Original ==
  \A a \in FlagValues, b \in FlagValues :
    AddThenClear(_options, a, b) = ClearThenAdd(_options, a, b)

\* C5: addFlags(a) then clearFlags(b) leaves the same flags as clearFlags(b)
\* then addFlags(a), for all masks a and b that have no bit in common.
C5_CommuteWhenDisjoint ==
  \A a \in FlagValues, b \in FlagValues :
    BitAnd(a, b) = {} => AddThenClear(_options, a, b) = ClearThenAdd(_options, a, b)

C5_Witness ==
  /\ IsLogger
  /\ lastOp.op = "clearFlags" /\ lastOp.flags = kFlagHexImms
  /\ FormatOptions_flags(_options) = kFlagMachineCode

\* C6: setIndentation(t, n) and resetIndentation(t) leave the indentation of
\* every category but t and the flags unchanged; setFlags, addFlags and
\* clearFlags leave the four indentations unchanged.
C6_IndentationAndFlagsAreSeparate ==
  [][IsLogger =>
       /\ lastOp'.op \in {"setIndentation", "resetIndentation"} =>
            /\ \A u \in IndentationTypes \ {lastOp'.type} :
                 Logger_indentation(Self', u) = Logger_indentation(Self, u)
            /\ Logger_flags(Self') = Logger_flags(Self)
       /\ lastOp'.op \in {"setFlags", "addFlags", "clearFlags"} =>
            _options'._indentation = _options._indentation]_vars

C6_Witness ==
  /\ IsLogger
  /\ lastOp.op = "resetIndentation" /\ lastOp.type = kIndentationLabel
  /\ \A u \in IndentationTypes \ {kIndentationLabel} : Logger_indentation(Self, u) = 3
  /\ Logger_flags(Self) = kFlagMachineCode \cup kFlagHexImms

\* C7: a StringLogger _log call returns success or out of memory; it returns
\* out of memory only when the content had to grow, and then the content is
\* what it was before the call; when it returns success the span is appended.
C7_OnlyGrowthFails ==
  [][(kind = "StringLogger" /\ lastOp'.op = "_log") =>
       LET span == ExpectedSpan(lastOp'.data, lastOp'.size) IN
       /\ lastOp'.res \in {kErrorOk, kErrorNoMemory}
       /\ lastOp'.res = kErrorNoMemory =>
            /\ StringLogger_size(Self) + Len(span) > _content.capacity
            /\ _content' = _content
       /\ lastOp'.res = kErrorOk =>
            StringLogger_data(Self') = StringLogger_data(Self) \o span]_vars

C7_Witness ==
  /\ kind = "StringLogger"
  /\ lastOp.op = "_log" /\ lastOp.res = kErrorNoMemory
  /\ StringLogger_data(Self) = <<1>>
  /\ ExpectedSpan(lastOp.data, lastOp.size) = <<1, 0>>

C9_OptionsAndOutputAreSeparate ==
  [][IsLogger =>
       /\ lastOp'.op \in OptionOps =>
            (_content' = _content /\ _file' = _file /\ streams' = streams)
       /\ lastOp'.op \in {"_log", "clear"} => _options' = _options]_vars

C9_Witness ==
  /\ kind = "StringLogger"
  /\ lastOp.op = "clear"
  /\ Logger_flags(Self) = kFlagHexImms
  /\ Logger_indentation(Self, kIndentationComment) = 3
  /\ _content.capacity = 3

\* C10: every stored indentation is in 0..255, and the indentation of t right
\* after setIndentation(t, n) is n mod 256, which is not n when n >= 256.
C10_IndentationIsEightBits ==
  IsLogger =>
    /\ \A t \in IndentationTypes : Logger_indentation(Self, t) \in 0..255
    /\ lastOp.op = "setIndentation" =>
         /\ Logger_indentation(Self, lastOp.type) = lastOp.n % 256
         /\ lastOp.n >= 256 => Logger_indentation(Self, lastOp.type) # lastOp.n

C10_Witness ==
  /\ IsLogger
  /\ lastOp.op = "setIndentation" /\ lastOp.n = 259
  /\ Logger_indentation(Self, lastOp.type) = 3

====
